---------------------------- MODULE Spec2Model ----------------------------
(***************************************************************************)
(* The WeatherToday plugin (rettar5/OCBP_WeatherToday).                    *)
(*                                                                         *)
(* Two near-duplicate implementations of the class exist in the            *)
(* repository: src/weatherToday.ts and src/unnamed/part_000.  The variable *)
(* impl says which of the two is the deployed one; everything that differs *)
(* between them (the emoji table, the rounding of the precipitation        *)
(* probability, the optional chaining on the payload) is modelled per      *)
(* implementation.                                                         *)
(*                                                                         *)
(* JavaScript values are tagged records, strings are sequences of UTF-16   *)
(* code units (String.prototype.length and substr count code units), a     *)
(* Date is its number of seconds since the epoch read on a host whose      *)
(* local time is UTC, and a fractional number is an integer count of       *)
(* tenths (temperature) or thousandths (precipProbability).                *)
(***************************************************************************)
EXTENDS Integers, Sequences, FiniteSets, TLC

VARIABLES
    impl,           \* which source file is deployed
    scheduleList,   \* WeatherToday.scheduleList (static)
    forecast,       \* WeatherToday.forecast (static)
    pc,             \* position of the WeatherToday instance under observation
    accountData,    \* this.accountData
    nowDate,        \* this.nowDate
    schedule,       \* run's local `schedule`
    request,        \* the point handed to forecast.get, while the fetch is pending
    weather,        \* the payload the fetch callback received
    tweet,          \* the OdnTweets object handed to postTweet: account and text
    postCount,      \* calls of tweets.postTweet made by the instance
    finishCount,    \* calls of finish made by the instance
    finishArg,      \* the argument of the last finish call
    postResult,     \* the flag the post operation reported
    check,          \* history: one earlier isValid call, its arguments and outcome
    gate            \* history: the entry for which an isValid call with the
                    \* instance's time had returned true before run, if any

vars == <<impl, scheduleList, forecast, pc, accountData, nowDate, schedule,
          request, weather, tweet, postCount, finishCount, finishArg,
          postResult, check, gate>>

cacheVars == <<scheduleList, forecast>>
instanceVars == <<pc, accountData, nowDate, schedule, request, weather, tweet,
                  postCount, finishCount, finishArg, postResult>>
historyVars == <<check, gate>>

-----------------------------------------------------------------------------
(* Bounds *)

\* The longest hourly series a forecast payload carries.
MaxHourly == 25

-----------------------------------------------------------------------------
(* The two implementations *)

TS == "weatherToday.ts"
P0 == "part_000"
Impls == {TS, P0}

-----------------------------------------------------------------------------
(* JavaScript values *)

JUndefined == [kind |-> "undefined", str |-> ""]
JStr(s) == [kind |-> "string", str |-> s]

\* !v for the values an environment entry can take.
Falsy(v) == v.kind = "undefined" \/ (v.kind = "string" /\ v.str = "")

NoLocation == [name |-> <<>>, point |-> <<0, 0>>]
\* `undefined`, the result of Array.prototype.find when nothing matches.
NoEntry == [kind |-> "undefined", hours |-> 0, minutes |-> 0, location |-> NoLocation]
\* A null element of the parsed list.
NullEntry == [kind |-> "null", hours |-> 0, minutes |-> 0, location |-> NoLocation]
Entry(h, m, name, point) ==
    [kind |-> "entry", hours |-> h, minutes |-> m,
     location |-> [name |-> name, point |-> point]]

\* The values of the static scheduleList: unset, or whatever JSON.parse gave.
ListUnset == [kind |-> "undefined", items |-> <<>>]
ListNull == [kind |-> "null", items |-> <<>>]
ListObject == [kind |-> "object", items |-> <<>>]
Array(items) == [kind |-> "array", items |-> items]

\* The values of the static forecast.
ForecastUnset == [kind |-> "undefined", key |-> ""]
ForecastNull == [kind |-> "null", key |-> ""]

-----------------------------------------------------------------------------
(* The environment store of the host, per account *)

Accounts == {"alice", "bob", "carol", "dave", "erin", "frank"}

Tokyo == <<"T", "o", "k", "y", "o">>
Osaka == <<"O", "s", "a", "k", "a">>
Yokohama == <<"Y", "o", "k", "o", "h", "a", "m", "a">>
Hiroshima == <<"H", "i", "r", "o", "s", "h", "i", "m", "a">>

AliceSchedules ==
    << NullEntry,
       Entry(7, 30, Tokyo, <<356, 1397>>),
       Entry(7, 30, Osaka, <<346, 1355>>),
       Entry(12, 0, Hiroshima, <<343, 1324>>) >>
BobSchedules ==
    << Entry(12, 0, Yokohama, <<354, 1396>>),
       Entry(7, 31, Tokyo, <<356, 1397>>) >>

\* OdnPlugins.getEnvData(FullName, "SCHEDULES_<userId>")
EnvSchedules(a) ==
    CASE a = "alice" -> JStr("<alice's list>")
      [] a = "bob"   -> JStr("<bob's list>")
      [] a = "carol" -> JUndefined
      [] a = "dave"  -> JStr("null")
      [] a = "erin"  -> JStr("{}")
      [] a = "frank" -> JStr("[{hours:7")

\* OdnPlugins.getEnvData(FullName, "FORECAST_KEY_<userId>")
EnvForecastKey(a) ==
    CASE a = "alice" -> JStr("")
      [] a = "bob"   -> JStr("key-bob")
      [] a = "carol" -> JStr("key-carol")
      [] a = "dave"  -> JUndefined
      [] a = "erin"  -> JStr("key-erin")
      [] a = "frank" -> JStr("")

-----------------------------------------------------------------------------
(* Schedule/key loading and matching (both files, lines 45-87) *)

\* JSON.parse on the stored texts: [threw, value].  JSON.parse(undefined)
\* and a truncated text raise a SyntaxError; "null" and "{}" parse, to a
\* value that is no array.
JSONParse(raw) ==
    CASE raw.kind = "undefined"  -> [threw |-> TRUE,  value |-> ListUnset]
      [] raw.str = "[{hours:7"   -> [threw |-> TRUE,  value |-> ListUnset]
      [] raw.str = "null"        -> [threw |-> FALSE, value |-> ListNull]
      [] raw.str = "{}"          -> [threw |-> FALSE, value |-> ListObject]
      [] raw.str = "<alice's list>" -> [threw |-> FALSE, value |-> Array(AliceSchedules)]
      [] raw.str = "<bob's list>"   -> [threw |-> FALSE, value |-> Array(BobSchedules)]

\* let result = []; try { result = JSON.parse(raw) } catch { Log.w } return result
getSchedules(a) ==
    LET parsed == JSONParse(EnvSchedules(a))
    IN  IF parsed.threw THEN Array(<<>>) ELSE parsed.value

\* !this.scheduleList
ListFalsy(l) == l.kind \in {"undefined", "null"}

\* Date.prototype.getHours / getMinutes of a date given in epoch seconds.
getHours(d) == (d \div 3600) % 24
getMinutes(d) == (d \div 60) % 60

\* The callback of find: s && hours === s.hours && minutes === s.minutes
Matches(s, hours, minutes) ==
    s.kind = "entry" /\ hours = s.hours /\ minutes = s.minutes

RECURSIVE FindFrom(_, _, _, _)
\* Array.prototype.find from index i on: the first element the callback
\* accepts, or undefined.
FindFrom(items, i, hours, minutes) ==
    IF i > Len(items) THEN NoEntry
    ELSE IF Matches(items[i], hours, minutes) THEN items[i]
    ELSE FindFrom(items, i + 1, hours, minutes)

RECURSIVE FindLastFrom(_, _, _, _)
FindLastFrom(items, i, hours, minutes) ==
    IF i < 1 THEN NoEntry
    ELSE IF Matches(items[i], hours, minutes) THEN items[i]
    ELSE FindLastFrom(items, i - 1, hours, minutes)

\* Faulty variant: the last matching element is returned instead of the first.
getMatchedScheduleLast(d, list) ==
    IF list.kind # "array"
    THEN [threw |-> TRUE, value |-> NoEntry]
    ELSE [threw |-> FALSE,
          value |-> FindLastFrom(list.items, Len(list.items), getHours(d), getMinutes(d))]

\* getMatchedSchedule: [threw, value].  scheduleList.find raises a TypeError
\* when scheduleList is undefined, null or an object without find.
getMatchedSchedule(d, list) ==
    IF list.kind # "array"
    THEN [threw |-> TRUE, value |-> NoEntry]
    ELSE [threw |-> FALSE,
          value |-> FindFrom(list.items, 1, getHours(d), getMinutes(d))]

\* getForecastKey: the stored key as it is (a warning is logged when !key).
getForecastKey(a) == EnvForecastKey(a)

\* Faulty variant: a client is constructed whatever the key.
getForecastAlways(key) == [kind |-> "client", key |-> key.str]

\* getForecast: null when !key, else a client constructed with the key.
getForecast(key) ==
    IF Falsy(key) THEN ForecastNull ELSE [kind |-> "client", key |-> key.str]

\* !this.forecast
ForecastFalsy(f) == f.kind \in {"undefined", "null"}

-----------------------------------------------------------------------------
(* Forecast payloads *)

\* const inter = 3; const count = 8;
inter == 3
count == 8

Sample(time, icon, temperature, precipProbability) ==
    [time |-> time, icon |-> icon, temperature |-> temperature,
     precipProbability |-> precipProbability]

\* How the samples of a payload look: the hour of the first sample, and the
\* icon, temperature (tenths of a degree) and precipProbability (thousandths)
\* they all carry.  The precipProbability values, 0.5, 1 and 0.125, are binary
\* fractions, so the double product with 100 is exact.
Profiles ==
    { [start |-> 7,  icon |-> "rain",      temperature |-> 204, precipProbability |-> 500],
      [start |-> 0,  icon |-> "clear-day", temperature |-> -35, precipProbability |-> 1000],
      [start |-> 22, icon |-> "tornado",   temperature |-> -4,  precipProbability |-> 125] }

\* n samples at one-hour spacing.
Hourly(n, pr) ==
    [i \in 1..n |-> Sample((pr.start + (i - 1)) * 3600, pr.icon, pr.temperature,
                           pr.precipProbability)]

\* A payload without the (optional) hourly block, and one with it.
NoHourly == [hourly |-> [present |-> FALSE, data |-> <<>>]]
WithHourly(data) == [hourly |-> [present |-> TRUE, data |-> data]]

HourlyLengths == {0} \cup ((inter * count - 1)..MaxHourly)

Payloads ==
    {NoHourly} \cup {WithHourly(Hourly(n, pr)) : n \in HourlyLengths, pr \in Profiles}

\* The payloads that tell the paths of the fetch callback apart: no hourly
\* block, an empty series, a full series.
CorePayloads ==
    { NoHourly, WithHourly(<<>>),
      WithHourly(Hourly(MaxHourly,
          [start |-> 7, icon |-> "rain", temperature |-> 204, precipProbability |-> 500])) }

-----------------------------------------------------------------------------
(* The formatter: the body of the fetch callback *)

\* 140 < text.length; text.substr(0, 139)
MaxTweetLength == 140
TruncatedLength == 139

LF == "\n"
Ellipsis == "u2026"
\* "の天気予報\n\n"
HeaderSuffix == <<"u306E", "u5929", "u6C17", "u4E88", "u5831", LF, LF>>
\* "天気予報の取得に失敗しました。"
FailureText ==
    <<"u5929", "u6C17", "u4E88", "u5831", "u306E", "u53D6", "u5F97", "u306B",
      "u5931", "u6557", "u3057", "u307E", "u3057", "u305F", "u3002">>
\* "時", "℃", "％"
HourMark == "u6642"
DegreeMark == "u2103"
PercentMark == "uFF05"

DigitChars == <<"0", "1", "2", "3", "4", "5", "6", "7", "8", "9">>

RECURSIVE NatToString(_)
NatToString(n) ==
    IF n < 10 THEN <<DigitChars[n + 1]>>
    ELSE NatToString(n \div 10) \o <<DigitChars[(n % 10) + 1]>>

\* String(n) of an integer, as a template literal renders it.
NumberToString(n) == IF n < 0 THEN <<"-">> \o NatToString(-n) ELSE NatToString(n)

\* Math.round of a number given in tenths: the nearest integer, a half going up.
MathRound(tenths) == (tenths + 5) \div 10

\* `${data.precipProbability * 100}` (weatherToday.ts, no rounding): the
\* product of a number of thousandths printed in decimal, with its tenth
\* when it has one.
TimesHundredToString(p) ==
    IF p % 10 = 0 THEN NumberToString(p \div 10)
    ELSE NumberToString(p \div 10) \o <<".">> \o NumberToString(p % 10)

\* The precipitation field of a line, per implementation.
precipText(im, p) ==
    IF im = TS THEN TimesHundredToString(p) ELSE NumberToString(MathRound(p))

\* getEmoji of weatherToday.ts (the switch; several glyphs carry U+FE0F).
getEmojiTS(icon) ==
    CASE icon = "clear-day"           -> <<"u2600", "uFE0F">>
      [] icon = "clear-night"         -> <<"uD83C", "uDF19">>
      [] icon = "rain"                -> <<"uD83C", "uDF27">>
      [] icon = "snow"                -> <<"u2603", "uFE0F">>
      [] icon = "sleet"               -> <<"uD83C", "uDF28">>
      [] icon = "wind"                -> <<"uD83D", "uDCA8">>
      [] icon = "fog"                 -> <<"uD83C", "uDF2B">>
      [] icon = "cloudy"              -> <<"u2601", "uFE0F">>
      [] icon = "partly-cloudy-day"   -> <<"u26C5", "uFE0F">>
      [] icon = "partly-cloudy-night" -> <<"u2601", "uFE0F">>
      [] OTHER                        -> <<"u2753">>

\* getEmoji of part_000: WeatherIcons[icon] || '❓'
getEmojiP0(icon) ==
    CASE icon = "clear-day"           -> <<"u2600">>
      [] icon = "clear-night"         -> <<"uD83C", "uDF19">>
      [] icon = "rain"                -> <<"uD83C", "uDF27">>
      [] icon = "snow"                -> <<"u2603">>
      [] icon = "sleet"               -> <<"uD83C", "uDF28">>
      [] icon = "wind"                -> <<"uD83D", "uDCA8">>
      [] icon = "fog"                 -> <<"uD83C", "uDF2B">>
      [] icon = "cloudy"              -> <<"u2601">>
      [] icon = "partly-cloudy-day"   -> <<"u26C5">>
      [] icon = "partly-cloudy-night" -> <<"u2601">>
      [] OTHER                        -> <<"u2753">>

getEmoji(im, icon) == IF im = TS THEN getEmojiTS(icon) ELSE getEmojiP0(icon)

\* The three appends of one loop iteration, for hourly sample `data`.
entryText(im, data) ==
    NumberToString(getHours(data.time)) \o <<HourMark, LF>>
    \o getEmoji(im, data.icon) \o <<" ">>
    \o NumberToString(MathRound(data.temperature)) \o <<DegreeMark, " ">>
    \o precipText(im, data.precipProbability) \o <<PercentMark, LF>>
    \o <<LF>>

RECURSIVE entriesFrom(_, _, _)
\* for (let i = k; i < count; i++) text += entry of data[i * inter]
entriesFrom(im, data, k) ==
    IF k >= count THEN <<>>
    ELSE entryText(im, data[k * inter + 1]) \o entriesFrom(im, data, k + 1)

\* Whether reading weather.hourly.data.length raises: weatherToday.ts
\* dereferences a missing hourly block, part_000 reads it as length 0.
lengthThrows(im, w) == im = TS /\ ~w.hourly.present

hourlyLength(w) == IF w.hourly.present THEN Len(w.hourly.data) ELSE 0

\* if (inter * count < weather.hourly.data.length)
enoughSamples(n) == inter * count < n

\* The text before the length limit (the if/else on the number of samples).
composeText(im, s, w) ==
    IF enoughSamples(hourlyLength(w))
    THEN s.location.name \o HeaderSuffix \o entriesFrom(im, w.hourly.data, 0)
    ELSE FailureText

\* Faulty variant: a text of exactly 140 code units is cut too.
limitTextInclusive(text) ==
    IF MaxTweetLength <= Len(text)
    THEN SubSeq(text, 1, TruncatedLength) \o <<Ellipsis>>
    ELSE text

\* if (140 < text.length) { text = text.substr(0, 139); text += "…" }
limitText(text) ==
    IF MaxTweetLength < Len(text)
    THEN SubSeq(text, 1, TruncatedLength) \o <<Ellipsis>>
    ELSE text

-----------------------------------------------------------------------------
(* Inputs *)

\* A Date in epoch seconds: day d, h:m:s.
At(d, h, m, s) == d * 86400 + h * 3600 + m * 60 + s

Times == { At(0, 7, 30, 0), At(1, 7, 31, 59), At(2, 12, 0, 0) }

-----------------------------------------------------------------------------
(* Initial state: nothing cached, no instance constructed *)

NoTweet == [account |-> "", text |-> <<>>]
NoRequest == [pending |-> FALSE, point |-> <<0, 0>>, key |-> ""]
NoCheck == [account |-> "", time |-> 0, result |-> "none", entry |-> NoEntry]

Init ==
    /\ impl \in Impls
    /\ scheduleList = ListUnset
    /\ forecast = ForecastUnset
    /\ pc = "none"
    /\ accountData = ""
    /\ nowDate = 0
    /\ schedule = NoEntry
    /\ request = NoRequest
    /\ weather = NoHourly
    /\ tweet = NoTweet
    /\ postCount = 0
    /\ finishCount = 0
    /\ finishArg = FALSE
    /\ postResult = FALSE
    /\ check = NoCheck
    /\ gate = NoEntry

-----------------------------------------------------------------------------
(* static isValid(accountData, nowDate) *)

\* Faulty variant: the list is loaded on every call.
scheduleListReloaded(list, a) == getSchedules(a)

\* if (!this.scheduleList) this.scheduleList = this.getSchedules(accountData)
scheduleListAfterCheck(list, a) ==
    IF ListFalsy(list) THEN getSchedules(a) ELSE list

\* Faulty variant: the client is constructed on every call.
forecastReloaded(f, a) == getForecast(getForecastKey(a))

\* if (!this.forecast) this.forecast = this.getForecast(this.getForecastKey(accountData))
forecastAfterCheck(f, a) ==
    IF ForecastFalsy(f) THEN getForecast(getForecastKey(a)) ELSE f

\* return this.getMatchedSchedule(nowDate, this.scheduleList) ? true : false
isValidResult(found) ==
    IF found.threw THEN "raised"
    ELSE IF found.value.kind = "entry" THEN "true" ELSE "false"

\* The whole call.  The history variable remembers this call or keeps the
\* one it remembered.
IsValid(a, t) ==
    LET list  == scheduleListAfterCheck(scheduleList, a)
        fc    == forecastAfterCheck(forecast, a)
        found == getMatchedSchedule(t, list)
        res   == isValidResult(found)
    IN  /\ scheduleList' = list
        /\ forecast' = fc
        /\ check' \in {check, [account |-> a, time |-> t, result |-> res,
                                entry |-> found.value]}
        /\ UNCHANGED <<impl, instanceVars, gate>>

-----------------------------------------------------------------------------
(* The instance: constructor, run, and the two callbacks of tweetWeather *)

\* new WeatherToday(accountData, nowDate, fullName).  Instances share nothing
\* but the static cache, which only isValid writes: a behaviour follows one
\* instance, constructed at any moment among the validity checks.
Construct(a, t) ==
    /\ pc = "none"
    /\ pc' = "constructed"
    /\ accountData' = a
    /\ nowDate' = t
    /\ UNCHANGED <<impl, cacheVars, historyVars, schedule, request, weather,
                   tweet, postCount, finishCount, finishArg, postResult>>

\* Faulty variant: a missing client or schedule is tolerated and the fetch issued.
fetchFaultsNever(f, s) == FALSE

\* WeatherToday.forecast.get(schedule.location.point, ...) raises a TypeError
\* when the client is null/undefined or the schedule is undefined.
fetchFaults(f, s) == ForecastFalsy(f) \/ s.kind # "entry"

\* run(finish): resolve the schedule again, then tweetWeather up to the
\* asynchronous forecast.get.
Run ==
    /\ pc = "constructed"
    /\ gate' = IF check.result = "true" /\ check.time = nowDate
               THEN check.entry ELSE NoEntry
    /\ LET found == getMatchedSchedule(nowDate, scheduleList)
       IN  IF found.threw
           THEN /\ pc' = "faulted"
                /\ UNCHANGED <<schedule, request>>
           ELSE /\ schedule' = found.value
                /\ IF fetchFaults(forecast, found.value)
                   THEN /\ pc' = "faulted"
                        /\ UNCHANGED request
                   ELSE /\ pc' = "fetching"
                        /\ request' = [pending |-> TRUE,
                                       point |-> found.value.location.point,
                                       key |-> forecast.key]
    /\ UNCHANGED <<impl, cacheVars, check, accountData, nowDate, weather,
                   tweet, postCount, finishCount, finishArg, postResult>>

\* Faulty variant: the error path reports failure through the callback.
finishesOnFetchErrorReported(n) == n + 1

\* if (error) { Log.e(...); return; }: cb is not called.
finishesOnFetchError(n) == n

\* The callback of forecast.get, called with an error.
FetchError ==
    /\ pc = "fetching"
    /\ pc' = "fetchFailed"
    /\ request' = [request EXCEPT !.pending = FALSE]
    /\ finishCount' = finishesOnFetchError(finishCount)
    /\ UNCHANGED <<impl, cacheVars, historyVars, accountData, nowDate, schedule,
                   weather, tweet, postCount, finishArg, postResult>>

\* The callback of forecast.get, called with a payload: format, limit, post.
FetchSuccess(w) ==
    /\ pc = "fetching"
    /\ request' = [request EXCEPT !.pending = FALSE]
    /\ weather' = w
    /\ IF lengthThrows(impl, w)
       THEN /\ pc' = "callbackFaulted"
            /\ UNCHANGED <<tweet, postCount>>
       ELSE /\ pc' = "posting"
            /\ tweet' = [account |-> accountData,
                         text |-> limitText(composeText(impl, schedule, w))]
            /\ postCount' = postCount + 1
    /\ UNCHANGED <<impl, cacheVars, historyVars, accountData, nowDate, schedule,
                   finishCount, finishArg, postResult>>

\* tweets.postTweet((isSuccess) => cb(isSuccess)); cb is (isSuccess) => finish(isSuccess)
finishArgument(isSuccess) == isSuccess

\* The post operation reports its result.
PostReports(isSuccess) ==
    /\ pc = "posting"
    /\ pc' = "finished"
    /\ postResult' = isSuccess
    /\ finishCount' = finishCount + 1
    /\ finishArg' = finishArgument(isSuccess)
    /\ UNCHANGED <<impl, cacheVars, historyVars, accountData, nowDate, schedule,
                   request, weather, tweet, postCount>>

-----------------------------------------------------------------------------

\* The plugin among the validity checks of every account, with the payloads
\* that tell the paths of the fetch callback apart.
Next ==
    \/ \E a \in Accounts, t \in Times : IsValid(a, t)
    \/ \E a \in Accounts, t \in Times : Construct(a, t)
    \/ Run
    \/ FetchError
    \/ \E w \in CorePayloads : FetchSuccess(w)
    \/ \E b \in BOOLEAN : PostReports(b)

Spec == Init /\ [][Next]_vars

\* The formatter on every payload, for the two accounts that store a list.
FormatAccounts == {"alice", "bob"}

FormatNext ==
    \/ \E a \in FormatAccounts, t \in Times : IsValid(a, t)
    \/ \E a \in FormatAccounts, t \in Times : Construct(a, t)
    \/ Run
    \/ FetchError
    \/ \E w \in Payloads : FetchSuccess(w)
    \/ \E b \in BOOLEAN : PostReports(b)

FormatSpec == Init /\ [][FormatNext]_vars

-----------------------------------------------------------------------------
(* Vocabulary of the properties *)

\* The positions of `list` whose entry has the hour and minute of date d.
MatchingIndexes(list, d) ==
    { i \in 1..Len(list.items) :
        /\ list.items[i].kind = "entry"
        /\ list.items[i].hours = getHours(d)
        /\ list.items[i].minutes = getMinutes(d) }

\* The qualifying entry that comes first in list order, if any.
FirstMatch(list, d) ==
    IF MatchingIndexes(list, d) = {} THEN NoEntry
    ELSE list.items[CHOOSE i \in MatchingIndexes(list, d) :
                        \A j \in MatchingIndexes(list, d) : i <= j]

\* The instance has executed run.
PastRun == {"faulted", "fetching", "fetchFailed", "callbackFaulted", "posting", "finished"}
\* run got as far as issuing the fetch.
Fetched == {"fetching", "fetchFailed", "callbackFaulted", "posting", "finished"}
\* The fetch callback was called without error and handed a text to postTweet.
Posted == {"posting", "finished"}

IsPrefix(p, s) == Len(p) <= Len(s) /\ SubSeq(s, 1, Len(p)) = p

Occurrences(s, c) == Cardinality({ i \in 1..Len(s) : s[i] = c })

\* The step is the run method of the instance.
RunStep == pc = "constructed" /\ pc' # "constructed"
\* The step is an isValid call that the history remembers.
CheckStep == check' # check
\* The step is the first isValid call of the process.
FirstCheckStep == forecast = ForecastUnset /\ forecast' # ForecastUnset

-----------------------------------------------------------------------------
(* C1 *)

\* C1: for every schedule list and time the matcher returns an entry iff some
\* entry's (hours, minutes) equals the time's, the first in list order when
\* several qualify, and the list it searched is left as it was.  The matcher
\* is observed where it is called: in isValid (on the list as cached by the
\* call) and in run.
C1_FirstMatchInListOrder ==
    [][ /\ (CheckStep /\ scheduleList'.kind = "array") =>
              /\ check'.entry = FirstMatch(scheduleList', check'.time)
              /\ check'.entry.kind = "entry"
                    <=> MatchingIndexes(scheduleList', check'.time) # {}
              /\ check'.result = "true" <=> check'.entry.kind = "entry"
              /\ check'.result \in {"true", "false"}
        /\ (RunStep /\ scheduleList.kind = "array") =>
              /\ schedule' = FirstMatch(scheduleList, nowDate)
              /\ schedule'.kind = "entry"
                    <=> MatchingIndexes(scheduleList, nowDate) # {}
        /\ (scheduleList.kind = "array" /\ (RunStep \/ CheckStep))
              => scheduleList' = scheduleList ]_vars

\* Two entries qualify (Tokyo and Osaka at 7:30) and run resolved the first.
C1_Witness ==
    /\ pc = "fetching"
    /\ scheduleList = Array(AliceSchedules)
    /\ Cardinality(MatchingIndexes(scheduleList, nowDate)) = 2
    /\ schedule.location.name = Tokyo
    /\ check.result = "false"

-----------------------------------------------------------------------------
(* C2 *)

\* C2: the data-sufficiency threshold is 24 hourly samples: with fewer the
\* text is the fixed failure string, with 24 or more it starts with the
\* "<location name> forecast" header and holds 8 time-block entries, those of
\* the samples 0, 3, ..., 21.
C2_ThresholdIs24 ==
    pc \in Posted =>
        LET n == hourlyLength(weather)
            header == schedule.location.name \o HeaderSuffix
        IN  /\ n < inter * count => tweet.text = FailureText
            /\ n >= inter * count =>
                  /\ IsPrefix(header, tweet.text)
                  /\ Occurrences(tweet.text, HourMark) = count
                  /\ tweet.text = limitText(header \o entriesFrom(impl, weather.hourly.data, 0))

-----------------------------------------------------------------------------
(* C3 *)

-----------------------------------------------------------------------------
(* C4 *)

\* C4: once the fetch callback was called with an error, the run attempts no
\* post and never calls the completion callback, in any later state.
C4_FetchErrorEndsSilently ==
    [][ /\ pc' = "fetchFailed" =>
              /\ postCount' = 0
              /\ finishCount' = 0
              /\ tweet' = NoTweet
        /\ pc = "fetchFailed" => pc' = "fetchFailed" ]_vars

\* The fetch was issued and its callback reported an error.
C4_Witness ==
    /\ pc = "fetchFailed"
    /\ request.point = schedule.location.point
    /\ ~request.pending

-----------------------------------------------------------------------------
(* C5 *)

\* C5: after the fetch callback was called without error exactly one post is
\* attempted, with the forecast text or the fixed failure text, whatever the
\* payload holds; the completion callback is called exactly once, after the
\* post reported and with the flag it reported, and never before.
C5_OnePostThenOneFinish ==
    /\ pc \in {"callbackFaulted", "posting", "finished"} =>
          /\ postCount = 1
          /\ tweet.account = accountData
          /\ \/ tweet.text = FailureText
             \/ IsPrefix(schedule.location.name \o HeaderSuffix, tweet.text)
    /\ pc = "finished" => finishCount = 1 /\ finishArg = postResult
    /\ pc # "finished" => finishCount = 0

-----------------------------------------------------------------------------
(* C6 *)

\* The stored schedule configuration of account a is no well-formed list.
Malformed(a) ==
    JSONParse(EnvSchedules(a)).threw \/ JSONParse(EnvSchedules(a)).value.kind # "array"

\* C6: when the loader runs on a stored value that is no well-formed schedule
\* list (absent, unparsable, or parsing to null or an object) it yields the
\* empty sequence, and isValid returns false without raising.
C6_MalformedYieldsNoSchedules ==
    [][ (ListFalsy(scheduleList) /\ CheckStep /\ Malformed(check'.account)) =>
            /\ scheduleList' = Array(<<>>)
            /\ check'.result = "false" ]_vars

-----------------------------------------------------------------------------
(* C7 *)

\* C7 as stated: the list, the key and the client are loaded at most once,
\* all during the first validity check, so that from the first check on the
\* cached list and the cached client (or its absence) are the first
\* account's and stay.
C7_LoadedOnceAtFirstCheck ==
    [][ /\ scheduleList.kind \in {"array", "object"} => scheduleList' = scheduleList
        /\ forecast # ForecastUnset => forecast' = forecast ]_vars

\* C7 amended: a validity check loads the list only while the cached one is
\* unset or null, and the key and client only while no client is cached; what
\* a check stores comes from the configuration of the account of that check.
C7_LoadedWhileMissingFromCaller ==
    [][ /\ scheduleList' # scheduleList => ListFalsy(scheduleList)
        /\ forecast' # forecast => ForecastFalsy(forecast)
        /\ \E a \in Accounts :
              /\ CheckStep => a = check'.account
              /\ scheduleList' # scheduleList => scheduleList' = getSchedules(a)
              /\ forecast' # forecast => forecast' = getForecast(getForecastKey(a)) ]_vars

\* The cached list is alice's and the cached client was built from bob's key.
C7_Witness ==
    /\ scheduleList = Array(AliceSchedules)
    /\ forecast = getForecast(EnvForecastKey("bob"))
    /\ check.account = "carol"

-----------------------------------------------------------------------------
(* C8 *)

\* C8: once the cached list is set (to any non-null value, the empty list
\* included) and once the cached client is non-null, no isValid or run call
\* replaces or clears it; the steps of an instance never write the cache.
C8_CacheIsOneShot ==
    [][ /\ ~ListFalsy(scheduleList) => scheduleList' = scheduleList
        /\ ~ForecastFalsy(forecast) => forecast' = forecast
        /\ pc' # pc => UNCHANGED cacheVars ]_vars

\* alice's list and carol's client survived a later check by bob and a
\* whole run.
C8_Witness ==
    /\ scheduleList = Array(AliceSchedules)
    /\ forecast = getForecast(EnvForecastKey("carol"))
    /\ check.account = "bob"
    /\ pc = "finished"

-----------------------------------------------------------------------------
(* C9 *)

\* C9: when the key of the account of the first validity check is absent or
\* empty the client is left unset and the check still answers true when the
\* time matches a cached entry; a run started while the client is unset
\* faults: no fetch is issued, nothing is posted, finish is never called.
C9_MissingKeyFaultsTheRun ==
    [][ /\ (FirstCheckStep /\ CheckStep /\ Falsy(EnvForecastKey(check'.account))) =>
              /\ forecast' = ForecastNull
              /\ (scheduleList'.kind = "array"
                    /\ MatchingIndexes(scheduleList', check'.time) # {})
                 => check'.result = "true"
        /\ (RunStep /\ ForecastFalsy(forecast)) =>
              /\ pc' = "faulted"
              /\ request' = NoRequest
        /\ pc' = "faulted" =>
              /\ ~request'.pending
              /\ postCount' = 0
              /\ finishCount' = 0
        /\ pc = "faulted" => pc' = "faulted" ]_vars

\* alice, whose key is empty, made the only validity check so far and was
\* answered true; the run resolved her entry and faulted on the missing client.
C9_Witness ==
    /\ pc = "faulted"
    /\ forecast = ForecastNull
    /\ check.account = "alice"
    /\ check.result = "true"
    /\ schedule.kind = "entry"
    /\ gate = schedule

-----------------------------------------------------------------------------
(* C10 *)

\* No cached entry has the hour and minute of date d.
NoMatch(list, d) == list.kind # "array" \/ MatchingIndexes(list, d) = {}

\* C10 as stated: a run whose time an earlier isValid call answered true for
\* resolves the entry of that answer and issues the fetch for its location
\* point; a run whose time matches no cached entry resolves no entry and
\* faults before any fetch, post or completion callback.
C10_GatedRunFetches ==
    /\ (pc \in PastRun /\ gate.kind = "entry") =>
          /\ schedule = gate
          /\ pc \in Fetched
          /\ request.point = gate.location.point
    /\ (pc \in PastRun /\ NoMatch(scheduleList, nowDate)) =>
          /\ pc = "faulted"
          /\ schedule = NoEntry
          /\ postCount = 0 /\ finishCount = 0

\* C10 amended: such a run resolves the entry of that answer, and issues the
\* fetch for its location point when a client is cached; when none is, it
\* faults before any fetch.  A run whose time matches no cached entry
\* resolves no entry and faults before any fetch, post or completion callback.
C10_GatedRunResolvesSameEntry ==
    [][ /\ (RunStep /\ gate'.kind = "entry") =>
              /\ schedule' = gate'
              /\ IF ForecastFalsy(forecast)
                 THEN pc' = "faulted" /\ request' = NoRequest
                 ELSE /\ pc' = "fetching"
                      /\ request' = [pending |-> TRUE,
                                     point |-> gate'.location.point,
                                     key |-> forecast.key]
        /\ (RunStep /\ NoMatch(scheduleList, nowDate)) =>
              /\ pc' = "faulted"
              /\ schedule' = NoEntry
              /\ request' = NoRequest
        /\ pc' = "faulted" => postCount' = 0 /\ finishCount' = 0
        /\ pc = "faulted" => pc' = "faulted" ]_vars

\* isValid answered true for 12:00 to bob, dave's later check for another
\* time intervened, and the run for 12:00 fetches for Yokohama's point.
C10_Witness ==
    /\ pc = "fetching"
    /\ gate = BobSchedules[1]
    /\ schedule = gate
    /\ request.point = gate.location.point
    /\ check.account = "dave"
    /\ check.time # nowDate

=============================================================================
